---- MODULE Spec2Model ----
(***************************************************************************)
(* Order subsystem of the e-commerce backend: OrderRepository.create,      *)
(* findById, updateStatus and updatePaymentStatus running as concurrent    *)
(* request handlers against the orders / order_items tables, together      *)
(* with the Order model's validation schemas and pricing.                  *)
(*                                                                         *)
(* Money is counted in cents.  The JavaScript code computes with binary    *)
(* doubles and the DECIMAL(10,2) columns round on INSERT; intermediate     *)
(* values are therefore kept in thousandths of a cent ("mc") and rounded   *)
(* by ToDecimal2 when a row is written.                                    *)
(* An optional value (a missing request key, a NULL column) is a sequence  *)
(* of length 0 or 1.                                                       *)
(***************************************************************************)
EXTENDS Integers, Sequences, FiniteSets, TLC

\* ------------------------------------------------------------------ bounds
MaxCreates == 2     \* create calls started
MaxReads == 1       \* findById calls started by a route
MaxUpdates == 2     \* updateStatus / updatePaymentStatus calls started
MaxCalls == 2       \* calls of any kind started in the calls specification
MaxFaults == 1      \* persistence faults raised
MaxClock == 2       \* readings of the clock
MaxSuffix == 1      \* the random suffix of an order number is in 0..MaxSuffix
PoolSize == 2       \* connectionLimit of the pool
maxAttempts == 2    \* authRateLimit: requests let through per window
windowMs == 1       \* authRateLimit: length of the window, in clock units
MaxRateClock == 3   \* readings of the clock in the rate limit specification

\* Two requests are in flight at a time.
Procs == {1, 2}

\* ------------------------------------------------------------ optionals
None == <<>>
Some(v) == <<v>>
IsSet(o) == o # <<>>
Val(o) == o[1]

\* JavaScript truthiness of an optional number / string (|| and if (...)).
TruthyNum(o) == IsSet(o) /\ Val(o) # 0
TruthyStr(o) == IsSet(o) /\ Val(o) # ""

\* ------------------------------------------------------------- Order model
STATUS == {"pending", "confirmed", "processing", "shipped", "delivered",
           "cancelled", "refunded"}
PAYMENT_STATUS == {"pending", "paid", "failed", "refunded", "partially_refunded"}

\* createSchema.  The schema lists user_id, items, shipping_address,
\* billing_address, payment_method, notes, discount_amount and
\* shipping_amount; a key outside the list (tax_amount) is rejected.
createSchema(data) ==
    /\ data.user_id >= 1
    /\ Len(data.items) >= 1
    /\ \A i \in 1..Len(data.items) :
          /\ data.items[i].product_id >= 1
          /\ data.items[i].quantity >= 1
          /\ data.items[i].price >= 0
    /\ IsSet(data.discount_amount) => Val(data.discount_amount) >= 0
    /\ IsSet(data.shipping_amount) => Val(data.shipping_amount) >= 0
    /\ ~IsSet(data.tax_amount)

\* validateCreate: {error, value}; value carries the schema defaults.
validateCreate(data) ==
    [error |-> ~createSchema(data),
     value |-> [user_id |-> data.user_id,
                items |-> data.items,
                notes |-> IF IsSet(data.notes) THEN Val(data.notes) ELSE "",
                discount_amount |-> IF IsSet(data.discount_amount)
                                    THEN Val(data.discount_amount) ELSE 0,
                shipping_amount |-> IF IsSet(data.shipping_amount)
                                    THEN Val(data.shipping_amount) ELSE 0,
                tax_amount |-> data.tax_amount]]

\* Mutant of validateStatusUpdate: the gate lets every payload through.
validateStatusUpdateNoGate(data) ==
    [error |-> FALSE,
     value |-> data]

\* updateStatusSchema: status one of the seven values, notes string or ''.
validateStatusUpdate(data) ==
    [error |-> ~(data.status \in STATUS),
     value |-> data]

\* updatePaymentSchema.
validatePaymentUpdate(data) ==
    [error |-> ~(data.payment_status \in PAYMENT_STATUS),
     value |-> data]

\* ------------------------------------------------------------------ pricing
RECURSIVE SumItems(_, _)
\* let subtotal = 0; for (item of items) subtotal += item.price * item.quantity
SumItems(items, n) ==
    IF n = 0 THEN 0
    ELSE SumItems(items, n - 1) + items[n].price * items[n].quantity

Subtotal(items) == SumItems(items, Len(items))

\* order.tax_amount = value.tax_amount || subtotal * 0.075   (in mc)
TaxAmount(value, subtotal) ==
    IF TruthyNum(value.tax_amount) THEN Val(value.tax_amount) * 1000
    ELSE subtotal * 75

\* Order.calculateTotal (in mc; tax is in mc, the others in cents)
calculateTotal(subtotal, taxMc, shipping, discount) ==
    subtotal * 1000 + taxMc + shipping * 1000 - discount * 1000

\* DECIMAL(10,2): the cent values a column may take when the double holding
\* mc/1000 cents is stored.  The column rounds to the nearest cent.  A value
\* lying exactly between two cents (x.xx5) has no exact double, so the stored
\* cent is the one the representation error of the computed double falls
\* towards: either neighbour (9.00 * 0.075 is 0.6749999999999999 and is stored
\* as 0.67, 0.2 * 0.075 is 0.015 and is stored as 0.02).
ToDecimal2(mc) ==
    IF mc % 1000 = 500 THEN {mc \div 1000, mc \div 1000 + 1}
    ELSE {(mc + 500) \div 1000}

\* round(x, 2): decimal rounding to the cent, ties away from zero.
Round2(mc) ==
    IF mc >= 0 THEN (mc + 500) \div 1000 ELSE -((-mc + 500) \div 1000)

\* ------------------------------------------------------------------- state
VARIABLES
    orders,        \* table orders (committed rows): order id -> row
    order_items,   \* table order_items (committed rows): order id -> rows by id
    products,      \* table products: product id -> [name, sku, price]
    autoInc,       \* next AUTO_INCREMENT id of table orders
    clock,         \* Date.now() / CURRENT_TIMESTAMP
    free,          \* connections the pool can still hand out
    faults,        \* persistence faults raised so far
    calls,         \* repository calls started so far, by kind
    pc,            \* per request: the await it is suspended at
    call,          \* per request: [name, id, data] of the repository call
    caller,        \* per request: the call site of the running findById
    txn,           \* per request: uncommitted writes of its open transaction
    order,         \* per request: the local `order` (create: the Order being
                   \*   built; updates: the snapshot read by findById)
    orderId,       \* per request: create's insertId
    idx,           \* per request: position of create's item loop
    product,       \* per request: productRows[0] of the current item
    row,           \* per request: orderRows[0] of the running findById
    err,           \* per request: the error travelling to the caller
    result,        \* per request: what the call returned or threw
    countTotal,    \* per request: countResult[0].total of the running findAll
    req,           \* per request: the route and req.user of the HTTP request
    response,      \* per request: the status and body the route has sent
    attempts,      \* the Map of authRateLimit: client key -> [count, firstAttempt]
    verdict,       \* per client key: what authRateLimit did with its last request
    through        \* per client key: the times its requests were passed on

vars == <<orders, order_items, products, autoInc, clock, row, free, faults, calls,
          pc, call, caller, txn, order, orderId, idx, product, err, result,
          countTotal, req, response, attempts, verdict, through>>

\* The state of the HTTP layer, which the repository does not touch.
web == <<countTotal, req, response, attempts, verdict, through>>

NoReq == [route |-> "none", user |-> None]
NoResponse == [status |-> 0, data |-> None]

\* The client keys (req.ip) of the rate limit specification.
Keys == {1, 2}

tables == <<orders, order_items, products, autoInc>>

NoCall == [name |-> "none", id |-> 0, data |-> None]
NoTxn == [open |-> FALSE, header |-> None, items |-> <<>>]
NoResult == [status |-> "none", error |-> "", order |-> None]
Returned(o) == [status |-> "returned", error |-> "", order |-> o]
Thrown(e) == [status |-> "thrown", error |-> e, order |-> None]

\* The seeded product table (ids 1 and 2 exist; any other id does not).
SeedProducts ==
    (1 :> [name |-> "Nike Air Max 90", sku |-> "NIKE-AM90-001",
           price |-> 12000]) @@
    (2 :> [name |-> "Apple iPhone 15 Pro", sku |-> "APPLE-IP15P-128",
           price |-> 99999])

Init ==
    /\ orders = <<>>
    /\ order_items = <<>>
    /\ products = SeedProducts
    /\ autoInc = 1
    /\ clock = 1
    /\ free = PoolSize
    /\ faults = 0
    /\ calls = [create |-> 0, read |-> 0, update |-> 0]
    /\ pc = [p \in Procs |-> "idle"]
    /\ call = [p \in Procs |-> NoCall]
    /\ caller = [p \in Procs |-> "none"]
    /\ txn = [p \in Procs |-> NoTxn]
    /\ order = [p \in Procs |-> None]
    /\ orderId = [p \in Procs |-> None]
    /\ idx = [p \in Procs |-> 0]
    /\ product = [p \in Procs |-> None]
    /\ row = [p \in Procs |-> None]
    /\ err = [p \in Procs |-> None]
    /\ result = [p \in Procs |-> NoResult]
    /\ countTotal = [p \in Procs |-> 0]
    /\ req = [p \in Procs |-> NoReq]
    /\ response = [p \in Procs |-> NoResponse]
    /\ attempts = <<>>
    /\ verdict = [k \in Keys |-> "none"]
    /\ through = [k \in Keys |-> <<>>]

\* ------------------------------------------------------------ Order objects
\* Order.generateOrderNumber: `ORD-${Date.now()}-${3 random digits}`.
generateOrderNumber(now, random) == <<"ORD", now, random>>

\* new Order(value) followed by lines 23-33 of create.
NewOrder(value, now, random) ==
    LET subtotal == Subtotal(value.items)
        taxMc == TaxAmount(value, subtotal)
    IN  [user_id |-> value.user_id,
         order_number |-> generateOrderNumber(now, random),
         status |-> "pending",
         payment_status |-> "pending",
         notes |-> value.notes,
         subtotal |-> subtotal,
         tax_amount |-> taxMc,
         shipping_amount |-> value.shipping_amount,
         discount_amount |-> value.discount_amount,
         total_amount |-> calculateTotal(subtotal, taxMc,
                              value.shipping_amount, value.discount_amount)]

\* The row INSERT INTO orders stores for Order o: the DECIMAL(10,2) columns
\* hold `tax` and `total`, payment_reference and the timestamps are NULL.
OrderRow(id, o, tax, total) ==
    [id |-> id,
     user_id |-> o.user_id,
     order_number |-> o.order_number,
     status |-> o.status,
     payment_status |-> o.payment_status,
     payment_reference |-> None,
     notes |-> o.notes,
     shipped_at |-> None,
     delivered_at |-> None,
     subtotal |-> o.subtotal,
     tax_amount |-> tax,
     shipping_amount |-> o.shipping_amount,
     discount_amount |-> o.discount_amount,
     total_amount |-> total]

\* Mutant of ItemRow: total_price is written without the quantity.
ItemRowUnitTotal(id, item, prod) ==
    [order_id |-> id,
     product_id |-> item.product_id,
     product_name |-> prod.name,
     product_sku |-> prod.sku,
     quantity |-> item.quantity,
     unit_price |-> item.price,
     total_price |-> item.price]

\* The row INSERT INTO order_items stores for a requested item.
ItemRow(id, item, prod) ==
    [order_id |-> id,
     product_id |-> item.product_id,
     product_name |-> prod.name,
     product_sku |-> prod.sku,
     quantity |-> item.quantity,
     unit_price |-> item.price,
     total_price |-> item.price * item.quantity]

\* Order.fromDatabase(row) plus order.items = itemRows: the constructor copies
\* the fields it knows (payment_reference is not one of them).
fromDatabase(r, itemRows) ==
    [id |-> r.id,
     user_id |-> r.user_id,
     order_number |-> r.order_number,
     status |-> r.status,
     payment_status |-> r.payment_status,
     notes |-> r.notes,
     shipped_at |-> r.shipped_at,
     delivered_at |-> r.delivered_at,
     subtotal |-> r.subtotal,
     tax_amount |-> r.tax_amount,
     shipping_amount |-> r.shipping_amount,
     discount_amount |-> r.discount_amount,
     total_amount |-> r.total_amount,
     items |-> itemRows]

\* Mutant of DuplicateKey: the column is declared without UNIQUE.
DuplicateKeyNotUnique(number) == FALSE

\* orders.order_number is UNIQUE: an INSERT of a number a committed row
\* already has fails with a duplicate-key error.
DuplicateKey(number) ==
    \E id \in DOMAIN orders : orders[id].order_number = number

\* An INSERT of a number that another open transaction has inserted and not
\* yet committed waits for that transaction to end.
WaitsForKey(p, number) ==
    \E q \in Procs \ {p} :
        /\ IsSet(txn[q].header)
        /\ Val(txn[q].header).order_number = number

\* ------------------------------------------------------- control transfer
\* The call of request p ends: it returns o / throws e, having released
\* `rel` connections in its finally blocks.
Return(p, o, rel) ==
    /\ pc' = [pc EXCEPT ![p] = "done"]
    /\ result' = [result EXCEPT ![p] = Returned(o)]
    /\ free' = free + rel

Throw(p, e, rel) ==
    /\ pc' = [pc EXCEPT ![p] = "done"]
    /\ result' = [result EXCEPT ![p] = Thrown(e)]
    /\ free' = free + rel

\* An await inside create's try block throws e: control goes to the catch
\* block (line 84).
Catch(p, e) ==
    /\ pc' = [pc EXCEPT ![p] = "c84"]
    /\ err' = [err EXCEPT ![p] = Some(e)]

\* Mutant of FindReturns: the update goes on without the `if (!order)` test.
FindReturnsNoCheck(p, found) ==
    CASE caller[p] = "findById" ->
            /\ Return(p, found, 1)
            /\ UNCHANGED <<order, err>>
      [] caller[p] \in {"c82", "u275", "p317"} ->
            /\ Return(p, found, 2)
            /\ UNCHANGED <<order, err>>
      [] caller[p] \in {"u239", "p290"} ->
            /\ pc' = [pc EXCEPT ![p] =
                         IF caller[p] = "u239" THEN "u244" ELSE "p295"]
            /\ order' = [order EXCEPT ![p] = found]
            /\ free' = free + 1
            /\ UNCHANGED <<result, err>>

\* findById of request p returns `found` to its call site, having released
\* its own connection (finally, line 119).
FindReturns(p, found) ==
    CASE caller[p] = "findById" ->
            /\ Return(p, found, 1)
            /\ UNCHANGED <<order, err>>
      [] caller[p] \in {"c82", "u275", "p317"} ->
            \* return await this.findById(..); finally connection.release()
            /\ Return(p, found, 2)
            /\ UNCHANGED <<order, err>>
      [] caller[p] \in {"u239", "p290"} ->
            \* const order = await this.findById(id); if (!order) throw
            IF IsSet(found)
            THEN /\ pc' = [pc EXCEPT ![p] =
                              IF caller[p] = "u239" THEN "u244" ELSE "p295"]
                 /\ order' = [order EXCEPT ![p] = found]
                 /\ free' = free + 1
                 /\ UNCHANGED <<result, err>>
            ELSE /\ Throw(p, "Order not found", 1)
                 /\ UNCHANGED <<order, err>>

\* findById of request p throws e, having released `rel` connections itself.
FindThrows(p, e, rel) ==
    CASE caller[p] \in {"findById", "u239", "p290"} ->
            /\ Throw(p, e, rel)
            /\ UNCHANGED <<order, err>>
      [] caller[p] = "c82" ->
            \* line 82 lies inside create's try block
            /\ Catch(p, e)
            /\ free' = free + rel
            /\ UNCHANGED <<order, result>>
      [] caller[p] \in {"u275", "p317"} ->
            \* try/finally without catch: release, then propagate
            /\ Throw(p, e, rel + 1)
            /\ UNCHANGED <<order, err>>

\* ------------------------------------------------------------ OrderRepository
\* create(orderData), lines 11-17: the validation gate, then on to the
\* first await.
create(p, data) ==
    /\ pc[p] = "idle"
    /\ calls.create < MaxCreates
    /\ calls' = [calls EXCEPT !.create = @ + 1]
    /\ call' = [call EXCEPT ![p] = [name |-> "create", id |-> 0, data |-> data]]
    /\ IF validateCreate(data).error
       THEN Throw(p, "Validation error", 0)
       ELSE /\ pc' = [pc EXCEPT ![p] = "c17"]
            /\ UNCHANGED <<free, result>>
    /\ UNCHANGED <<tables, clock, row, faults, caller, txn, order, orderId, idx,
                   product, err>>
    /\ UNCHANGED web

\* findById(id), line 94: on to its first await.
findById(p, id) ==
    /\ pc[p] = "idle"
    /\ calls.read < MaxReads
    /\ calls' = [calls EXCEPT !.read = @ + 1]
    /\ call' = [call EXCEPT ![p] = [name |-> "findById", id |-> id, data |-> None]]
    /\ caller' = [caller EXCEPT ![p] = "findById"]
    /\ pc' = [pc EXCEPT ![p] = "f95"]
    /\ UNCHANGED <<tables, clock, row, free, faults, txn, order, orderId, idx,
                   product, err, result>>
    /\ UNCHANGED web

\* updateStatus(id, statusData), lines 233-239: the validation gate, then
\* the lookup `await this.findById(id)`.
updateStatus(p, id, data) ==
    /\ pc[p] = "idle"
    /\ calls.update < MaxUpdates
    /\ calls' = [calls EXCEPT !.update = @ + 1]
    /\ call' = [call EXCEPT ![p] = [name |-> "updateStatus", id |-> id, data |-> data]]
    /\ IF validateStatusUpdate(data).error
       THEN /\ Throw(p, "Validation error", 0)
            /\ UNCHANGED caller
       ELSE /\ pc' = [pc EXCEPT ![p] = "f95"]
            /\ caller' = [caller EXCEPT ![p] = "u239"]
            /\ UNCHANGED <<free, result>>
    /\ UNCHANGED <<tables, clock, row, faults, txn, order, orderId, idx, product, err>>
    /\ UNCHANGED web

\* updatePaymentStatus(id, paymentData), lines 284-290.
updatePaymentStatus(p, id, data) ==
    /\ pc[p] = "idle"
    /\ calls.update < MaxUpdates
    /\ calls' = [calls EXCEPT !.update = @ + 1]
    /\ call' = [call EXCEPT ![p] = [name |-> "updatePaymentStatus", id |-> id,
                                    data |-> data]]
    /\ IF validatePaymentUpdate(data).error
       THEN /\ Throw(p, "Validation error", 0)
            /\ UNCHANGED caller
       ELSE /\ pc' = [pc EXCEPT ![p] = "f95"]
            /\ caller' = [caller EXCEPT ![p] = "p290"]
            /\ UNCHANGED <<free, result>>
    /\ UNCHANGED <<tables, clock, row, faults, txn, order, orderId, idx, product, err>>
    /\ UNCHANGED web

\* await databaseManager.getConnection() (lines 17, 95, 244, 295).  The
\* DatabaseManager of config/database.js defines no getConnection; it is taken
\* to be the pool's acquisition that DatabaseManager.transaction uses
\* findAll(queryParams), lines 126-183: the WHERE clause is built (of the
\* filters the model keeps user_id), then on to the first await.
findAll(p, query) ==
    /\ pc[p] = "idle"
    /\ calls.read < MaxReads
    /\ calls' = [calls EXCEPT !.read = @ + 1]
    /\ call' = [call EXCEPT ![p] = [name |-> "findAll", id |-> 0, data |-> query]]
    /\ pc' = [pc EXCEPT ![p] = "a183"]
    /\ UNCHANGED <<tables, clock, row, free, faults, caller, txn, order, orderId,
                   idx, product, err, result>>
    /\ UNCHANGED web

\* (pool.getConnection, waitForConnections: true): the pool hands out a free
\* connection and the request waits while none is free.  A call that fails
\* outright is the Fault at these lines.
getConnection(p) ==
    /\ pc[p] \in {"c17", "f95", "a183", "u244", "p295"}
    /\ free > 0
    /\ free' = free - 1
    /\ pc' = [pc EXCEPT ![p] = CASE pc[p] = "c17" -> "c19"
                                 [] pc[p] = "f95" -> "f98"
                                 [] pc[p] = "a183" -> "a186"
                                 [] pc[p] = "u244" -> "u270"
                                 [] pc[p] = "p295" -> "p312"]
    /\ UNCHANGED <<tables, clock, row, faults, calls, call, caller, txn, order,
                   orderId, idx, product, err, result>>
    /\ UNCHANGED web

\* await connection.beginTransaction() (line 19), then lines 22-33: the Order
\* is built, numbered and priced.
beginTransaction(p) ==
    /\ pc[p] = "c19"
    /\ \E random \in 0..MaxSuffix :
          order' = [order EXCEPT ![p] =
                       Some(NewOrder(validateCreate(call[p].data).value,
                                     clock, random))]
    /\ txn' = [txn EXCEPT ![p] = [open |-> TRUE, header |-> None, items |-> <<>>]]
    /\ pc' = [pc EXCEPT ![p] = "c35"]
    /\ UNCHANGED <<tables, clock, row, free, faults, calls, call, caller, orderId,
                   idx, product, err, result>>
    /\ UNCHANGED web

\* await connection.execute(INSERT INTO orders ...) (lines 35-52).
insertOrder(p) ==
    /\ pc[p] = "c35"
    /\ LET o == Val(order[p]) IN
       IF DuplicateKey(o.order_number)
       THEN /\ Catch(p, "ER_DUP_ENTRY")
            /\ UNCHANGED <<autoInc, txn, orderId, idx>>
       ELSE /\ ~WaitsForKey(p, o.order_number)
            /\ \E tax \in ToDecimal2(o.tax_amount),
                  total \in ToDecimal2(o.total_amount) :
                  txn' = [txn EXCEPT ![p].header =
                             Some(OrderRow(autoInc, o, tax, total))]
            /\ orderId' = [orderId EXCEPT ![p] = Some(autoInc)]
            /\ autoInc' = autoInc + 1
            /\ idx' = [idx EXCEPT ![p] = 1]
            /\ pc' = [pc EXCEPT ![p] = "c57"]
            /\ UNCHANGED err
    /\ UNCHANGED <<orders, order_items, products, clock, row, free, faults, calls,
                   call, caller, order, product, result>>
    /\ UNCHANGED web

\* await connection.execute(SELECT name, sku FROM products WHERE id = ?)
\* (lines 57-66) for the item at idx.
selectProduct(p) ==
    /\ pc[p] = "c57"
    /\ LET item == call[p].data.items[idx[p]] IN
       IF item.product_id \in DOMAIN products
       THEN /\ product' = [product EXCEPT ![p] =
                               Some([name |-> products[item.product_id].name,
                                     sku |-> products[item.product_id].sku])]
            /\ pc' = [pc EXCEPT ![p] = "c69"]
            /\ UNCHANGED err
       ELSE /\ Catch(p, "Product not found")
            /\ UNCHANGED product
    /\ UNCHANGED <<tables, clock, row, free, faults, calls, call, caller, txn, order,
                   orderId, idx, result>>
    /\ UNCHANGED web

\* await connection.execute(INSERT INTO order_items ...) (lines 67-79) for
\* the item at idx; the loop goes on or falls through to the commit.
insertItem(p) ==
    /\ pc[p] = "c69"
    /\ LET item == call[p].data.items[idx[p]] IN
       txn' = [txn EXCEPT ![p].items =
                  Append(@, ItemRow(Val(orderId[p]), item, Val(product[p])))]
    /\ idx' = [idx EXCEPT ![p] = @ + 1]
    /\ pc' = [pc EXCEPT ![p] =
                 IF idx[p] < Len(call[p].data.items) THEN "c57" ELSE "c81"]
    /\ UNCHANGED <<tables, clock, row, free, faults, calls, call, caller, order,
                   orderId, product, err, result>>
    /\ UNCHANGED web

\* await connection.commit() (line 81), then the call of findById (line 82).
commit(p) ==
    /\ pc[p] = "c81"
    /\ LET id == Val(orderId[p]) IN
       /\ orders' = orders @@ (id :> Val(txn[p].header))
       /\ order_items' = order_items @@ (id :> txn[p].items)
    /\ txn' = [txn EXCEPT ![p] = NoTxn]
    /\ caller' = [caller EXCEPT ![p] = "c82"]
    /\ pc' = [pc EXCEPT ![p] = "f95"]
    /\ UNCHANGED <<products, autoInc, clock, row, free, faults, calls, call, order,
                   orderId, idx, product, err, result>>
    /\ UNCHANGED web

\* Mutant of rollback: the statements ran in autocommit mode, so the rows
\* written before the failure stay.
rollbackAutocommit(p) ==
    /\ pc[p] = "c84"
    /\ IF IsSet(txn[p].header)
       THEN /\ orders' = orders @@ (Val(orderId[p]) :> Val(txn[p].header))
            /\ order_items' = order_items @@ (Val(orderId[p]) :> txn[p].items)
       ELSE UNCHANGED <<orders, order_items>>
    /\ txn' = [txn EXCEPT ![p] = NoTxn]
    /\ Throw(p, Val(err[p]), 1)
    /\ UNCHANGED <<products, autoInc, clock, row, faults, calls, call, caller,
                   order, orderId, idx, product, err>>
    /\ UNCHANGED web

\* Mutant of rollback: the connection is released at the end of the try
\* block instead of in a finally block, so the error path keeps it.
rollbackNoRelease(p) ==
    /\ pc[p] = "c84"
    /\ txn' = [txn EXCEPT ![p] = NoTxn]
    /\ Throw(p, Val(err[p]), 0)
    /\ UNCHANGED <<tables, clock, row, faults, calls, call, caller, order, orderId,
                   idx, product, err>>
    /\ UNCHANGED web

\* catch: await connection.rollback(); throw error; finally release
\* (lines 83-88).  The uncommitted rows are dropped.
rollback(p) ==
    /\ pc[p] = "c84"
    /\ txn' = [txn EXCEPT ![p] = NoTxn]
    /\ Throw(p, Val(err[p]), 1)
    /\ UNCHANGED <<tables, clock, row, faults, calls, call, caller, order, orderId,
                   idx, product, err>>
    /\ UNCHANGED web

\* Mutant of selectOrder: the SELECT also reads the rows other transactions
\* have not committed yet.
selectOrderDirty(p) ==
    /\ pc[p] = "f98"
    /\ LET id == IF caller[p] = "c82" THEN Val(orderId[p]) ELSE call[p].id
           dirty == {q \in Procs : IsSet(txn[q].header) /\ Val(txn[q].header).id = id}
       IN
       IF id \in DOMAIN orders \/ dirty # {}
       THEN /\ row' = [row EXCEPT ![p] =
                          IF id \in DOMAIN orders THEN Some(orders[id])
                          ELSE txn[CHOOSE q \in dirty : TRUE].header]
            /\ pc' = [pc EXCEPT ![p] = "f110"]
            /\ UNCHANGED <<free, order, err, result>>
       ELSE /\ FindReturns(p, None)
            /\ UNCHANGED row
    /\ UNCHANGED <<tables, clock, faults, calls, call, caller, txn, orderId,
                   idx, product>>
    /\ UNCHANGED web

\* findById: await connection.execute(SELECT * FROM orders WHERE id = ?)
\* (lines 98-107); no row: return null.
selectOrder(p) ==
    /\ pc[p] = "f98"
    /\ LET id == IF caller[p] = "c82" THEN Val(orderId[p]) ELSE call[p].id IN
       IF id \in DOMAIN orders
       THEN /\ row' = [row EXCEPT ![p] = Some(orders[id])]
            /\ pc' = [pc EXCEPT ![p] = "f110"]
            /\ UNCHANGED <<free, order, err, result>>
       ELSE /\ FindReturns(p, None)
            /\ UNCHANGED row
    /\ UNCHANGED <<tables, clock, faults, calls, call, caller, txn, orderId,
                   idx, product>>
    /\ UNCHANGED web

\* findById: await connection.execute(SELECT * FROM order_items WHERE
\* order_id = ? ORDER BY id) (lines 110-120); return order.
selectItems(p) ==
    /\ pc[p] = "f110"
    /\ LET r == Val(row[p])
           itemRows == IF r.id \in DOMAIN order_items
                       THEN order_items[r.id] ELSE <<>>
       IN  FindReturns(p, Some(fromDatabase(r, itemRows)))
    /\ UNCHANGED <<tables, clock, row, faults, calls, call, caller, txn,
                   orderId, idx, product>>
    /\ UNCHANGED web

\* The orders rows the WHERE clause of findAll selects: `if (user_id)` adds
\* the filter user_id = ? (lines 157-160).
Selected(query) ==
    {id \in DOMAIN orders :
        TruthyNum(query.user_id) => orders[id].user_id = Val(query.user_id)}

\* Order.fromDatabase(row) as findAll uses it (line 204): the header alone,
\* the constructor sets no items.
Header(r) ==
    LET o == fromDatabase(r, <<>>) IN
    [f \in DOMAIN o \ {"items"} |-> o[f]]

\* findAll: await connection.execute(SELECT COUNT(*) as total FROM orders
\* WHERE ...) (lines 186-190).
countOrders(p) ==
    /\ pc[p] = "a186"
    /\ countTotal' = [countTotal EXCEPT ![p] = Cardinality(Selected(call[p].data))]
    /\ pc' = [pc EXCEPT ![p] = "a193"]
    /\ UNCHANGED <<tables, clock, row, free, faults, calls, call, caller, txn,
                   order, orderId, idx, product, err, result>>
    /\ UNCHANGED <<req, response, attempts, verdict, through>>

\* findAll: await connection.execute(SELECT o.* FROM orders o ... WHERE ...
\* LIMIT ? OFFSET ?) (lines 193-224); return { data, pagination }; finally
\* connection.release().  The page holds every selected row; the order of
\* the list is left out.
selectOrders(p) ==
    /\ pc[p] = "a193"
    /\ Return(p, Some([data |-> {Header(orders[id]) : id \in Selected(call[p].data)},
                       total |-> countTotal[p]]), 1)
    /\ UNCHANGED <<tables, clock, row, faults, calls, call, caller, txn, order,
                   orderId, idx, product, err>>
    /\ UNCHANGED web

\* Mutant of StatusUpdate: delivered stamps delivered_at only, without the
\* backfill of shipped_at.
StatusUpdateNoBackfill(r, value, o, now) ==
    [r EXCEPT
       !.status = value.status,
       !.shipped_at = IF value.status = "shipped" THEN Some(now) ELSE @,
       !.delivered_at = IF value.status = "delivered" THEN Some(now) ELSE @,
       !.notes = IF TruthyStr(value.notes) THEN Val(value.notes) ELSE @]

\* Mutant of StatusUpdate: the backfilled shipped_at is a time taken before
\* the statement runs, not the statement's CURRENT_TIMESTAMP.
StatusUpdateBackfillEarlier(r, value, o, now) ==
    [r EXCEPT
       !.status = value.status,
       !.shipped_at =
           IF value.status = "shipped" THEN Some(now)
           ELSE IF value.status = "delivered" /\ ~IsSet(o.shipped_at)
                THEN Some(now - 1)
                ELSE @,
       !.delivered_at = IF value.status = "delivered" THEN Some(now) ELSE @,
       !.notes = IF TruthyStr(value.notes) THEN Val(value.notes) ELSE @]

\* Mutant of StatusUpdate: a status before shipped resets the timestamps.
StatusUpdateClears(r, value, o, now) ==
    [r EXCEPT
       !.status = value.status,
       !.shipped_at =
           IF value.status = "shipped" THEN Some(now)
           ELSE IF value.status = "delivered" /\ ~IsSet(o.shipped_at)
                THEN Some(now)
                ELSE IF value.status \in {"pending", "confirmed", "processing"}
                     THEN None
                     ELSE @,
       !.delivered_at =
           IF value.status = "delivered" THEN Some(now)
           ELSE IF value.status \in {"pending", "confirmed", "processing"}
                THEN None
                ELSE @,
       !.notes = IF TruthyStr(value.notes) THEN Val(value.notes) ELSE @]

\* Mutant of StatusUpdate: a transition table turns delivered -> pending
\* down and the row stays as it is.
StatusUpdateLegal(r, value, o, now) ==
    IF r.status = "delivered" /\ value.status = "pending" THEN r
    ELSE [r EXCEPT
            !.status = value.status,
            !.shipped_at =
                IF value.status = "shipped" THEN Some(now)
                ELSE IF value.status = "delivered" /\ ~IsSet(o.shipped_at)
                     THEN Some(now)
                     ELSE @,
            !.delivered_at = IF value.status = "delivered" THEN Some(now) ELSE @,
            !.notes = IF TruthyStr(value.notes) THEN Val(value.notes) ELSE @]

\* Mutant of StatusUpdate: the UPDATE carries the status the lookup saw
\* (WHERE id = ? AND status = ?) and changes nothing when the row has moved on.
StatusUpdateIfUnchanged(r, value, o, now) ==
    IF r.status # o.status THEN r
    ELSE [r EXCEPT
            !.status = value.status,
            !.shipped_at =
                IF value.status = "shipped" THEN Some(now)
                ELSE IF value.status = "delivered" /\ ~IsSet(o.shipped_at)
                     THEN Some(now)
                     ELSE @,
            !.delivered_at = IF value.status = "delivered" THEN Some(now) ELSE @,
            !.notes = IF TruthyStr(value.notes) THEN Val(value.notes) ELSE @]

\* The UPDATE of updateStatus (lines 246-273) applied to a stored row: `o` is
\* the snapshot the lookup of line 239 returned, `now` CURRENT_TIMESTAMP.
StatusUpdate(r, value, o, now) ==
    [r EXCEPT
       !.status = value.status,
       !.shipped_at =
           IF value.status = "shipped" THEN Some(now)
           ELSE IF value.status = "delivered" /\ ~IsSet(o.shipped_at)
                THEN Some(now)
                ELSE @,
       !.delivered_at = IF value.status = "delivered" THEN Some(now) ELSE @,
       !.notes = IF TruthyStr(value.notes) THEN Val(value.notes) ELSE @]

\* updateStatus: await connection.execute(UPDATE orders SET ... WHERE id = ?)
\* (lines 246-273), then the call of findById (line 275).
updateOrder(p) ==
    /\ pc[p] = "u270"
    /\ LET id == call[p].id
           value == validateStatusUpdate(call[p].data).value
       IN  orders' = IF id \in DOMAIN orders
                     THEN [orders EXCEPT ![id] =
                              StatusUpdate(@, value, Val(order[p]), clock)]
                     ELSE orders
    /\ caller' = [caller EXCEPT ![p] = "u275"]
    /\ pc' = [pc EXCEPT ![p] = "f95"]
    /\ UNCHANGED <<order_items, products, autoInc, clock, row, free, faults,
                   calls, call, txn, order, orderId, idx, product, err, result>>
    /\ UNCHANGED web

\* Mutant of PaymentUpdate: the UPDATE also writes the amount paid over
\* total_amount.
PaymentUpdateTotal(r, value) ==
    [r EXCEPT
       !.payment_status = value.payment_status,
       !.payment_reference =
           IF TruthyStr(value.payment_reference)
           THEN Some(Val(value.payment_reference)) ELSE @,
       !.total_amount = 0,
       !.notes = IF TruthyStr(value.notes) THEN Val(value.notes) ELSE @]

\* The UPDATE of updatePaymentStatus (lines 297-315) applied to a stored row.
PaymentUpdate(r, value) ==
    [r EXCEPT
       !.payment_status = value.payment_status,
       !.payment_reference =
           IF TruthyStr(value.payment_reference)
           THEN Some(Val(value.payment_reference)) ELSE @,
       !.notes = IF TruthyStr(value.notes) THEN Val(value.notes) ELSE @]

\* updatePaymentStatus: await connection.execute(UPDATE orders SET ...)
\* (lines 297-315), then the call of findById (line 317).
updatePayment(p) ==
    /\ pc[p] = "p312"
    /\ LET id == call[p].id
           value == validatePaymentUpdate(call[p].data).value
       IN  orders' = IF id \in DOMAIN orders
                     THEN [orders EXCEPT ![id] = PaymentUpdate(@, value)]
                     ELSE orders
    /\ caller' = [caller EXCEPT ![p] = "p317"]
    /\ pc' = [pc EXCEPT ![p] = "f95"]
    /\ UNCHANGED <<order_items, products, autoInc, clock, row, free, faults,
                   calls, call, txn, order, orderId, idx, product, err, result>>
    /\ UNCHANGED web

\* Mutant of updateProduct: the change is carried into the order items of
\* the product.
updateProductCascade(id, value) ==
    /\ id \in DOMAIN products
    /\ products' = [products EXCEPT ![id] =
                       [f \in DOMAIN @ |-> IF f \in DOMAIN value THEN value[f] ELSE @[f]]]
    /\ order_items' =
          [o \in DOMAIN order_items |->
              [i \in DOMAIN order_items[o] |->
                  IF order_items[o][i].product_id = id
                  THEN [order_items[o][i] EXCEPT !.product_name = products'[id].name,
                                                 !.product_sku = products'[id].sku,
                                                 !.unit_price = products'[id].price]
                  ELSE order_items[o][i]]]
    /\ UNCHANGED <<orders, autoInc, clock, row, free, faults, calls, pc, call,
                   caller, txn, order, orderId, idx, product, err, result>>
    /\ UNCHANGED web

\* ProductRepository.update(id, updateData): UPDATE products SET <the fields
\* of updateData> WHERE id = ?; the statement is the one write of the call
\* and touches table products alone.
updateProduct(id, value) ==
    /\ id \in DOMAIN products
    /\ products' = [products EXCEPT ![id] =
                       [f \in DOMAIN @ |-> IF f \in DOMAIN value THEN value[f] ELSE @[f]]]
    /\ UNCHANGED <<orders, order_items, autoInc, clock, row, free, faults, calls,
                   pc, call, caller, txn, order, orderId, idx, product, err, result>>
    /\ UNCHANGED web

\* A persistence fault: the await request p is suspended at rejects.
\*   line 17 / 244 / 295: nothing is held yet, the error leaves the call;
\*   lines 19-81: inside create's try, the catch block runs;
\*   line 84: the rollback itself fails (the connection is lost and the
\*     server drops the transaction); its error replaces the first one;
\*   lines 95-110: findById fails (95: before its try; 98, 110: its finally
\*     releases) and the error reaches the call site;
\*   lines 183-193: findAll fails (183: before its try; 186, 193: its
\*     finally releases);
\*   lines 270 / 312: finally releases, the error leaves the call.
\* MaxFaults caps the faults of the awaits a call can reach any number of
\* times; a call reaches its catch block at most once, so the failure of
\* the rollback is not counted.
Fault(p) ==
    /\ faults < MaxFaults \/ pc[p] = "c84"
    /\ faults' = IF pc[p] = "c84" THEN faults ELSE faults + 1
    /\ pc[p] \in {"c17", "c19", "c35", "c57", "c69", "c81", "c84",
                  "f95", "f98", "f110", "a183", "a186", "a193",
                  "u244", "u270", "p295", "p312"}
    /\ CASE pc[p] \in {"c17", "a183", "u244", "p295"} ->
               /\ Throw(p, "ER_FAULT", 0)
               /\ UNCHANGED <<txn, order, err>>
         [] pc[p] \in {"c19", "c35", "c57", "c69", "c81"} ->
               /\ Catch(p, "ER_FAULT")
               /\ UNCHANGED <<txn, order, free, result>>
         [] pc[p] = "c84" ->
               /\ txn' = [txn EXCEPT ![p] = NoTxn]
               /\ Throw(p, "ER_ROLLBACK", 1)
               /\ UNCHANGED <<order, err>>
         [] pc[p] = "f95" ->
               /\ FindThrows(p, "ER_FAULT", 0)
               /\ UNCHANGED txn
         [] pc[p] \in {"f98", "f110"} ->
               /\ FindThrows(p, "ER_FAULT", 1)
               /\ UNCHANGED txn
         [] pc[p] \in {"a186", "a193", "u270", "p312"} ->
               /\ Throw(p, "ER_FAULT", 1)
               /\ UNCHANGED <<txn, order, err>>
    /\ UNCHANGED <<tables, clock, row, calls, call, caller, orderId, idx,
                   product>>
    /\ UNCHANGED web

\* The response is sent; the request object and its locals are gone.
Finish(p) ==
    /\ pc[p] = "done"
    /\ pc' = [pc EXCEPT ![p] = "idle"]
    /\ call' = [call EXCEPT ![p] = NoCall]
    /\ caller' = [caller EXCEPT ![p] = "none"]
    /\ order' = [order EXCEPT ![p] = None]
    /\ orderId' = [orderId EXCEPT ![p] = None]
    /\ idx' = [idx EXCEPT ![p] = 0]
    /\ product' = [product EXCEPT ![p] = None]
    /\ row' = [row EXCEPT ![p] = None]
    /\ err' = [err EXCEPT ![p] = None]
    /\ result' = [result EXCEPT ![p] = NoResult]
    /\ countTotal' = [countTotal EXCEPT ![p] = 0]
    /\ req' = [req EXCEPT ![p] = NoReq]
    /\ response' = [response EXCEPT ![p] = NoResponse]
    /\ UNCHANGED <<tables, clock, free, faults, calls, txn, attempts, verdict,
                   through>>

\* -------------------------------------------------------------- order routes
\* authorize(...roles): 401 without req.user, 403 when the role is not one
\* of `roles`, otherwise next() (0).
authorize(roles, user) ==
    IF ~IsSet(user) THEN 401
    ELSE IF Val(user).role \notin roles THEN 403
    ELSE 0

managerOrAdmin == {"manager", "admin"}
customerOrHigher == {"customer", "manager", "admin"}

\* The middleware each order route is registered with.
RouteRoles(route) ==
    IF route \in {"PUT /:id/status", "PUT /:id/payment"}
    THEN managerOrAdmin ELSE customerOrHigher

\* A request arrives at an order route as request p; after authenticate has
\* attached req.user, authorize answers it or passes it on to the handler.
middleware(p, r) ==
    /\ pc[p] = "idle"
    /\ req[p] = NoReq
    /\ req' = [req EXCEPT ![p] = r]
    /\ LET refused == authorize(RouteRoles(r.route), r.user) IN
       IF refused = 0
       THEN UNCHANGED <<pc, response>>
       ELSE /\ response' = [response EXCEPT ![p] =
                                [status |-> refused, data |-> None]]
            /\ pc' = [pc EXCEPT ![p] = "done"]
    /\ UNCHANGED <<tables, clock, row, free, faults, calls, call, caller, txn,
                   order, orderId, idx, product, err, result, countTotal,
                   attempts, verdict, through>>

\* Request p has passed the middleware of `route` and is not answered yet.
Accepted(p, route) == req[p].route = route /\ response[p].status = 0

IsCustomer(r) == Val(r.user).role = "customer"

\* GET /api/orders, lines 986-995: a customer's query is given the user_id
\* of the requester; findAll is called.
getOrders(p) ==
    /\ Accepted(p, "GET /")
    /\ findAll(p, IF IsCustomer(req[p])
                  THEN [req[p].input EXCEPT !.user_id = Some(Val(req[p].user).id)]
                  ELSE req[p].input)

\* GET /api/orders/:id, lines 1060-1062.
getOrder(p) ==
    /\ Accepted(p, "GET /:id")
    /\ findById(p, req[p].id)

\* POST /api/orders, lines 1112-1119: a customer's body is given the user_id
\* of the requester; create is called.
postOrder(p) ==
    /\ Accepted(p, "POST /")
    /\ create(p, IF IsCustomer(req[p])
                 THEN [req[p].input EXCEPT !.user_id = Val(req[p].user).id]
                 ELSE req[p].input)

\* PUT /api/orders/:id/status, lines 1185-1187.
putStatus(p) ==
    /\ Accepted(p, "PUT /:id/status")
    /\ updateStatus(p, req[p].id, req[p].input)

\* PUT /api/orders/:id/payment, lines 1255-1257.
putPayment(p) ==
    /\ Accepted(p, "PUT /:id/payment")
    /\ updatePaymentStatus(p, req[p].id, req[p].input)

\* order.toJSON(): the fields of the header; the items are not among them.
ToJSON(o) == [f \in DOMAIN o \ {"items"} |-> o[f]]

Answer(status, data) == [status |-> status, data |-> data]

\* Mutant of Response: GET /api/orders/:id answers without the test of the
\* owner.
ResponseNoOwnerCheck(r, res) ==
    CASE r.route = "GET /" ->
            IF res.status = "returned"
            THEN Answer(200, Some([data |-> {ToJSON(o) : o \in Val(res.order).data},
                                   pagination |-> [total |-> Val(res.order).total]]))
            ELSE Answer(500, None)
      [] r.route = "GET /:id" ->
            IF res.status = "thrown" THEN Answer(500, None)
            ELSE IF ~IsSet(res.order) THEN Answer(404, None)
            ELSE Answer(200, Some(ToJSON(Val(res.order))))
      [] r.route = "POST /" ->
            IF res.status = "returned"
            THEN IF IsSet(res.order)
                 THEN Answer(201, Some(ToJSON(Val(res.order))))
                 ELSE Answer(500, None)
            ELSE IF res.error \in {"Validation error", "Product not found"}
                 THEN Answer(400, None)
                 ELSE Answer(500, None)
      [] r.route \in {"PUT /:id/status", "PUT /:id/payment"} ->
            IF res.status = "returned"
            THEN IF IsSet(res.order)
                 THEN Answer(200, Some(ToJSON(Val(res.order))))
                 ELSE Answer(500, None)
            ELSE IF res.error = "Validation error" THEN Answer(400, None)
            ELSE IF res.error = "Order not found" THEN Answer(404, None)
            ELSE Answer(500, None)

\* What the handler of request r answers when its repository call has
\* returned or thrown `res` (the try / catch of each route).
Response(r, res) ==
    CASE r.route = "GET /" ->
            \* lines 997-1008
            IF res.status = "returned"
            THEN Answer(200, Some([data |-> {ToJSON(o) : o \in Val(res.order).data},
                                   pagination |-> [total |-> Val(res.order).total]]))
            ELSE Answer(500, None)
      [] r.route = "GET /:id" ->
            \* lines 1064-1089
            IF res.status = "thrown" THEN Answer(500, None)
            ELSE IF ~IsSet(res.order) THEN Answer(404, None)
            ELSE IF IsCustomer(r) /\ Val(res.order).user_id # Val(r.user).id
                 THEN Answer(403, None)
            ELSE Answer(200, Some(ToJSON(Val(res.order))))
      [] r.route = "POST /" ->
            \* lines 1121-1146; order.toJSON() of null throws inside the try
            IF res.status = "returned"
            THEN IF IsSet(res.order)
                 THEN Answer(201, Some(ToJSON(Val(res.order))))
                 ELSE Answer(500, None)
            ELSE IF res.error \in {"Validation error", "Product not found"}
                 THEN Answer(400, None)
                 ELSE Answer(500, None)
      [] r.route \in {"PUT /:id/status", "PUT /:id/payment"} ->
            \* lines 1189-1214, 1259-1284
            IF res.status = "returned"
            THEN IF IsSet(res.order)
                 THEN Answer(200, Some(ToJSON(Val(res.order))))
                 ELSE Answer(500, None)
            ELSE IF res.error = "Validation error" THEN Answer(400, None)
            ELSE IF res.error = "Order not found" THEN Answer(404, None)
            ELSE Answer(500, None)

\* The handler of request p answers.
respond(p) ==
    /\ pc[p] = "done"
    /\ req[p].route # "none"
    /\ response[p].status = 0
    /\ response' = [response EXCEPT ![p] = Response(req[p], result[p])]
    /\ UNCHANGED <<tables, clock, row, free, faults, calls, pc, call, caller, txn,
                   order, orderId, idx, product, err, result, countTotal, req,
                   attempts, verdict, through>>

\* -------------------------------------------------------------- rate limit
\* Mutant of authRateLimit: the limit is tested with > instead of >=.
authRateLimitOffByOne(key) ==
    /\ LET now == clock
           kept == [ip \in {i \in DOMAIN attempts :
                               ~(now - attempts[i].firstAttempt > windowMs)} |->
                       attempts[ip]]
       IN  IF key \notin DOMAIN kept
           THEN /\ attempts' = kept @@ (key :> [count |-> 1, firstAttempt |-> now])
                /\ verdict' = [verdict EXCEPT ![key] = "next"]
                /\ through' = [through EXCEPT ![key] = Append(@, now)]
           ELSE IF kept[key].count > maxAttempts
           THEN /\ attempts' = kept
                /\ verdict' = [verdict EXCEPT ![key] = "429"]
                /\ UNCHANGED through
           ELSE /\ attempts' = [kept EXCEPT ![key].count = @ + 1]
                /\ verdict' = [verdict EXCEPT ![key] = "next"]
                /\ through' = [through EXCEPT ![key] = Append(@, now)]
    /\ UNCHANGED <<tables, clock, row, free, faults, calls, pc, call, caller, txn,
                   order, orderId, idx, product, err, result, countTotal, req,
                   response>>

\* The middleware authRateLimit(maxAttempts, windowMs) handles a request of
\* client `key` (lines 176-206): the records older than the window are
\* deleted; a client without record gets one and is passed on; a client at
\* the limit is answered 429; otherwise its count goes up and it is passed
\* on.
authRateLimit(key) ==
    /\ LET now == clock
           kept == [ip \in {i \in DOMAIN attempts :
                               ~(now - attempts[i].firstAttempt > windowMs)} |->
                       attempts[ip]]
       IN  IF key \notin DOMAIN kept
           THEN /\ attempts' = kept @@ (key :> [count |-> 1, firstAttempt |-> now])
                /\ verdict' = [verdict EXCEPT ![key] = "next"]
                /\ through' = [through EXCEPT ![key] = Append(@, now)]
           ELSE IF kept[key].count >= maxAttempts
           THEN /\ attempts' = kept
                /\ verdict' = [verdict EXCEPT ![key] = "429"]
                /\ UNCHANGED through
           ELSE /\ attempts' = [kept EXCEPT ![key].count = @ + 1]
                /\ verdict' = [verdict EXCEPT ![key] = "next"]
                /\ through' = [through EXCEPT ![key] = Append(@, now)]
    /\ UNCHANGED <<tables, clock, row, free, faults, calls, pc, call, caller, txn,
                   order, orderId, idx, product, err, result, countTotal, req,
                   response>>

\* Time passes, up to the reading `bound`.
TickTo(bound) ==
    /\ clock < bound
    /\ clock' = clock + 1
    /\ UNCHANGED <<tables, row, free, faults, calls, pc, call, caller, txn,
                   order, orderId, idx, product, err, result>>
    /\ UNCHANGED web

Tick == TickTo(MaxClock)

\* ------------------------------------------------------------------ inputs
Item(pid, q, price) == [product_id |-> pid, quantity |-> q, price |-> price]

CreateRequest(items, shipping, discount, tax, notes) ==
    [user_id |-> 1, items |-> items, shipping_amount |-> shipping,
     discount_amount |-> discount, tax_amount |-> tax, notes |-> notes]

\* Requests of the transaction specification: product 3 does not exist; the
\* empty item list fails validation.
TxnItemLists ==
    {<<Item(1, 2, 1000)>>,
     <<Item(1, 1, 300), Item(2, 1, 300)>>,
     <<Item(1, 1, 300), Item(3, 1, 300)>>,
     <<Item(3, 1, 300)>>,
     <<>>}

TxnRequests == {CreateRequest(items, None, None, None, None) : items \in TxnItemLists}

\* ----------------------------------------------------------- specifications
Steps(p) ==
    \/ getConnection(p)
    \/ beginTransaction(p)
    \/ insertOrder(p)
    \/ selectProduct(p)
    \/ insertItem(p)
    \/ commit(p)
    \/ rollback(p)
    \/ selectOrder(p)
    \/ selectItems(p)
    \/ Finish(p)

\* Concurrent create requests with persistence faults.
Next ==
    \/ \E p \in Procs, data \in TxnRequests : create(p, data)
    \/ \E p \in Procs : Steps(p)
    \/ \E p \in Procs : Fault(p)

Spec == Init /\ [][Next]_vars

\* Requests of the pricing specification: subtotals 9.00 (whose 7.5% is
\* 0.675, between two cents), 20.00 and 6.00; shipping, discount and tax
\* absent or supplied.
PricingItemLists ==
    {<<Item(1, 3, 300)>>,
     <<Item(1, 2, 1000)>>,
     <<Item(1, 1, 300), Item(2, 1, 300)>>}

PricingRequests ==
    {CreateRequest(items, extra[1], extra[2], tax, None) :
        items \in PricingItemLists,
        extra \in {<<None, None>>, <<Some(500), Some(100)>>},
        tax \in {None, Some(0), Some(50)}}

StatusRequest(status, notes) == [status |-> status, notes |-> notes]

PaymentRequest(status, reference, notes) ==
    [payment_status |-> status, payment_reference |-> reference, notes |-> notes]

\* One request at a time: creates over the pricing requests.
NextPricing ==
    \E p \in {CHOOSE q \in Procs : TRUE} :
        \/ \E data \in PricingRequests : create(p, data)
        \/ Steps(p)

SpecPricing == Init /\ [][NextPricing]_vars

\* Requests of the status specification: one create request whose notes are
\* "old"; status updates without notes, with notes "new" and with empty notes;
\* payment updates with the reference empty or "TXN123".
StatusCreateRequest ==
    CreateRequest(<<Item(1, 2, 1000)>>, None, None, None, Some("old"))

StatusRequests ==
    {StatusRequest("delivered", None), StatusRequest("shipped", Some("new")),
     StatusRequest("processing", Some(""))}

PaymentRequests ==
    {PaymentRequest("paid", reference, None) :
        reference \in {Some(""), Some("TXN123")}}

\* One order is created; concurrent status and payment updates of it follow,
\* while awaits may be rejected.  The clock is read by the UPDATE of
\* updateStatus only (CURRENT_TIMESTAMP), so time passing is taken up just
\* before one.
NextStatus ==
    \/ \E p \in {CHOOSE q \in Procs : TRUE} :
          calls.create = 0 /\ create(p, StatusCreateRequest)
    \/ \E p \in Procs, id \in DOMAIN orders, data \in StatusRequests :
          updateStatus(p, id, data)
    \/ \E p \in Procs, id \in DOMAIN orders, data \in PaymentRequests :
          updatePaymentStatus(p, id, data)
    \/ \E p \in Procs : Steps(p)
    \/ \E p \in Procs : updateOrder(p)
    \/ \E p \in Procs : updatePayment(p)
    \/ \E p \in Procs : Fault(p)
    \/ (\E p \in Procs : pc[p] = "u270") /\ Tick

SpecStatus == Init /\ [][NextStatus]_vars

\* Requests of the calls specification: all four operations, with payloads
\* that pass and that fail the validation gate, on order ids that may or may
\* not exist, with persistence faults.
CallsCreateRequests ==
    {CreateRequest(items, None, None, None, None) :
        items \in {<<Item(1, 2, 1000)>>, <<Item(3, 1, 300)>>, <<>>}}

CallsStatusRequests ==
    {StatusRequest("delivered", None), StatusRequest("bogus", None)}

CallsPaymentRequests ==
    {PaymentRequest("paid", Some("TXN123"), None),
     PaymentRequest("bogus", None, None)}

OrderIds == 1..MaxCreates

\* Repository calls started so far, of any kind.
TotalCalls == calls.create + calls.read + calls.update

NextCalls ==
    \/ /\ TotalCalls < MaxCalls
       /\ \/ \E p \in Procs, data \in CallsCreateRequests : create(p, data)
          \/ \E p \in Procs, id \in OrderIds : findById(p, id)
          \/ \E p \in Procs, id \in OrderIds, data \in CallsStatusRequests :
                updateStatus(p, id, data)
          \/ \E p \in Procs, id \in OrderIds, data \in CallsPaymentRequests :
                updatePaymentStatus(p, id, data)
    \/ \E p \in Procs : Steps(p)
    \/ \E p \in Procs : updateOrder(p)
    \/ \E p \in Procs : updatePayment(p)
    \/ \E p \in Procs : Fault(p)

SpecCalls == Init /\ [][NextCalls]_vars

\* The status machine on its own: one order is created and status updates
\* with each of the seven values follow one after the other, so that every
\* pair of a current and a new status occurs; time passes before an UPDATE
\* reads CURRENT_TIMESTAMP.
TransitionRequests == {StatusRequest(status, None) : status \in STATUS}

NextTransitions ==
    \E p \in {CHOOSE q \in Procs : TRUE} :
        \/ calls.create = 0 /\ create(p, StatusCreateRequest)
        \/ \E id \in DOMAIN orders, data \in TransitionRequests :
              updateStatus(p, id, data)
        \/ getConnection(p)
        \/ beginTransaction(p)
        \/ insertOrder(p)
        \/ selectProduct(p)
        \/ insertItem(p)
        \/ commit(p)
        \/ selectOrder(p)
        \/ selectItems(p)
        \/ updateOrder(p)
        \/ Finish(p)
        \/ pc[p] = "u270" /\ Tick

SpecTransitions == Init /\ [][NextTransitions]_vars

\* Calls under a fair scheduler and without faults: every await that can
\* resolve does resolve (the event loop runs every continuation that is
\* ready, the store completes every statement); requests arrive as they
\* please.
LiveStep(p) == Steps(p) \/ updateOrder(p) \/ updatePayment(p)

NextLive ==
    \/ \E p \in Procs : create(p, StatusCreateRequest)
    \/ \E p \in Procs, id \in DOMAIN orders :
          updateStatus(p, id, StatusRequest("delivered", None))
    \/ \E p \in Procs, id \in DOMAIN orders :
          updatePaymentStatus(p, id, PaymentRequest("paid", Some("TXN123"), None))
    \/ \E p \in Procs : LiveStep(p)

SpecLive ==
    Init /\ [][NextLive]_vars /\ \A p \in Procs : WF_vars(LiveStep(p))

\* --- the visibility specification: the creates of one request slot run
\* next to the reads (findById, findAll) of the other and to changes of
\* the product records.
VisibilityItemLists ==
    {<<Item(1, 1, 300), Item(2, 1, 300)>>,
     <<Item(2, 2, 500), Item(1, 1, 300)>>}

VisibilityRequests ==
    {CreateRequest(items, None, None, None, None) : items \in VisibilityItemLists}

ListQuery(user_id) == [user_id |-> user_id]

ProductUpdates == {[name |-> "Nike Air Max 95", price |-> 13000]}

Writer == CHOOSE q \in Procs : TRUE
Readers == Procs \ {Writer}

NextVisibility ==
    \/ \E data \in VisibilityRequests : create(Writer, data)
    \/ \E p \in Readers, id \in OrderIds : findById(p, id)
    \/ \E p \in Readers : findAll(p, ListQuery(None))
    \/ \E p \in Procs : Steps(p)
    \/ \E p \in Procs : countOrders(p)
    \/ \E p \in Procs : selectOrders(p)
    \/ \E value \in ProductUpdates : updateProduct(1, value)

SpecVisibility == Init /\ [][NextVisibility]_vars

\* --- the routes specification: customers 1 and 2 and manager 3 use the
\* order endpoints.
Request(route, user, id, input) ==
    [route |-> route, user |-> Some(user), id |-> id, input |-> input]

RouteBody(user_id) ==
    [CreateRequest(<<Item(1, 1, 300)>>, None, None, None, None)
        EXCEPT !.user_id = user_id]

Customer1 == [id |-> 1, role |-> "customer"]
Customer2 == [id |-> 2, role |-> "customer"]
Manager == [id |-> 3, role |-> "manager"]

\* Orders are posted by both customers, each with the user_id of the other
\* in the body; order 1 is read and updated by
\* customers and by the manager; the lists are asked for with and without
\* a user_id in the query.
RouteRequests ==
    {Request("POST /", Customer1, 0, RouteBody(2)),
     Request("POST /", Customer2, 0, RouteBody(1))}
    \cup {Request("GET /:id", u, 1, None) : u \in {Customer1, Customer2, Manager}}
    \cup {Request("GET /", Customer1, 0, ListQuery(Some(2))),
          Request("GET /", Manager, 0, ListQuery(None))}
    \cup {Request("PUT /:id/status", u, 1, StatusRequest("shipped", None)) :
              u \in {Customer1, Manager}}
    \cup {Request("PUT /:id/payment", u, 1, PaymentRequest("paid", Some("TXN123"), None)) :
              u \in {Customer1, Manager}}

close(p) == response[p].status # 0 /\ Finish(p)

\* The requests are served one after the other, until MaxCalls repository
\* calls have been made.
NextRoutes ==
    \E p \in {CHOOSE q \in Procs : TRUE} :
        \/ TotalCalls < MaxCalls /\ \E r \in RouteRequests : middleware(p, r)
        \/ getOrders(p)
        \/ getOrder(p)
        \/ postOrder(p)
        \/ putStatus(p)
        \/ putPayment(p)
        \/ getConnection(p)
        \/ beginTransaction(p)
        \/ insertOrder(p)
        \/ selectProduct(p)
        \/ insertItem(p)
        \/ commit(p)
        \/ rollback(p)
        \/ selectOrder(p)
        \/ selectItems(p)
        \/ countOrders(p)
        \/ selectOrders(p)
        \/ updateOrder(p)
        \/ updatePayment(p)
        \/ respond(p)
        \/ close(p)

SpecRoutes == Init /\ [][NextRoutes]_vars

\* --- the rate limit specification: two clients send requests to a route
\* behind authRateLimit while time passes.
NextRateLimit ==
    \/ \E key \in Keys : authRateLimit(key)
    \/ TickTo(MaxRateClock)

SpecRateLimit == Init /\ [][NextRateLimit]_vars

\* =================================================================== claims
\* The rows of table orders / order_items that the create call of request p
\* has committed.
HeaderCommitted(p) == IsSet(orderId[p]) /\ Val(orderId[p]) \in DOMAIN orders
ItemsCommitted(p) ==
    IF IsSet(orderId[p]) /\ Val(orderId[p]) \in DOMAIN order_items
    THEN Len(order_items[Val(orderId[p])]) ELSE 0

CreateDone(p) == pc[p] = "done" /\ call[p].name = "create"

HasMissingProduct(data) ==
    \E i \in 1..Len(data.items) : data.items[i].product_id \notin DOMAIN products

\* C1: a create request with an item whose product id does not exist never
\* has a header row or an item row in the committed tables, and once it has
\* returned it has thrown; item rows never exist without their header.
C1_UnresolvedProductStoresNothing ==
    /\ \A p \in Procs :
          (call[p].name = "create" /\ HasMissingProduct(call[p].data)) =>
              /\ ~HeaderCommitted(p)
              /\ ItemsCommitted(p) = 0
              /\ pc[p] = "done" => result[p].status = "thrown"
    /\ DOMAIN order_items \subseteq DOMAIN orders

\* C1 witness: create has thrown "Product not found" for the second item,
\* after the header and the first item had been written in the transaction.
C1_Witness ==
    \E p \in Procs :
        /\ CreateDone(p)
        /\ result[p].error = "Product not found"
        /\ idx[p] = 2
        /\ IsSet(orderId[p])

\* C2: every finished create call has either returned the order with the
\* header and one item row per requested item committed, or thrown with no
\* header and no item row committed.
C2_AllOrNothing ==
    \A p \in Procs :
        CreateDone(p) =>
            \/ /\ result[p].status = "returned"
               /\ IsSet(result[p].order)
               /\ HeaderCommitted(p)
               /\ ItemsCommitted(p) = Len(call[p].data.items)
            \/ /\ result[p].status = "thrown"
               /\ ~HeaderCommitted(p)
               /\ ItemsCommitted(p) = 0

\* C10: no two committed orders share an order number, and a create that
\* threw the duplicate-key error has stored nothing.
C10_OrderNumberUnique ==
    /\ \A i, j \in DOMAIN orders :
          orders[i].order_number = orders[j].order_number => i = j
    /\ \A p \in Procs :
          (CreateDone(p) /\ result[p].error = "ER_DUP_ENTRY") =>
              /\ ~IsSet(orderId[p])
              /\ ~HeaderCommitted(p)
              /\ ItemsCommitted(p) = 0

\* C10 witness: a create drew the number of a committed order and threw the
\* duplicate-key error.
C10_Witness ==
    \E p \in Procs :
        /\ CreateDone(p)
        /\ result[p].error = "ER_DUP_ENTRY"
        /\ \E id \in DOMAIN orders :
              orders[id].order_number = Val(order[p]).order_number

\* The stored row of the order a finished create call has made.
Stored(p) == orders[Val(orderId[p])]
StoredItems(p) == order_items[Val(orderId[p])]

CreateReturned(p) == CreateDone(p) /\ result[p].status = "returned"

RECURSIVE SumTotalPrice(_, _)
SumTotalPrice(rows, n) ==
    IF n = 0 THEN 0 ELSE SumTotalPrice(rows, n - 1) + rows[n].total_price

\* C3: every stored order has
\* total_amount = subtotal + tax_amount + shipping_amount - discount_amount.
C3_TotalIsSum ==
    \A id \in DOMAIN orders :
        orders[id].total_amount =
            orders[id].subtotal + orders[id].tax_amount
              + orders[id].shipping_amount - orders[id].discount_amount

\* C4: an order created without a supplied tax amount has
\* tax_amount = round(subtotal * 0.075, 2).
C4_DefaultTax ==
    \A p \in Procs :
        (CreateReturned(p) /\ ~IsSet(call[p].data.tax_amount)) =>
            Stored(p).tax_amount = Round2(Subtotal(call[p].data.items) * 75)

\* C5: the stored subtotal of an order is the sum of price * quantity over
\* the requested items, every stored item carries the requested price and
\* quantity and total_price = unit_price * quantity, and the subtotal is the
\* sum of the stored total_price; two units at 10.00 give subtotal 20.00,
\* tax 1.50 and total 21.50.
C5_SubtotalIsItemSum ==
    /\ \A id \in DOMAIN orders :
          /\ id \in DOMAIN order_items
          /\ \A i \in 1..Len(order_items[id]) :
                order_items[id][i].total_price =
                    order_items[id][i].unit_price * order_items[id][i].quantity
          /\ orders[id].subtotal =
                SumTotalPrice(order_items[id], Len(order_items[id]))
    /\ \A p \in Procs :
          CreateReturned(p) =>
              LET items == call[p].data.items IN
              /\ Len(StoredItems(p)) = Len(items)
              /\ \A i \in 1..Len(items) :
                    /\ StoredItems(p)[i].unit_price = items[i].price
                    /\ StoredItems(p)[i].quantity = items[i].quantity
                    /\ StoredItems(p)[i].product_id = items[i].product_id
              /\ Stored(p).subtotal = Subtotal(items)
              /\ (call[p].data = CreateRequest(<<Item(1, 2, 1000)>>, None, None,
                                               None, None)) =>
                    /\ Stored(p).subtotal = 2000
                    /\ Stored(p).tax_amount = 150
                    /\ Stored(p).total_amount = 2150

\* C5 witness: create has returned for the request of two units at 10.00 ...
C5_WitnessExample ==
    \E p \in Procs :
        /\ CreateReturned(p)
        /\ call[p].data = CreateRequest(<<Item(1, 2, 1000)>>, None, None, None, None)
        /\ Stored(p).total_amount = 2150

\* ... and for a request of two items, whose rows are both stored.
C5_Witness ==
    \E p \in Procs :
        /\ CreateReturned(p)
        /\ Len(call[p].data.items) = 2
        /\ Len(StoredItems(p)) = 2
        /\ Stored(p).subtotal = 600

\* C6: a create call that supplies a tax amount stores an order whose
\* tax_amount is the supplied value and whose total is computed from it.
C6_SuppliedTaxVerbatim ==
    \A p \in Procs :
        (CreateDone(p) /\ IsSet(call[p].data.tax_amount)) =>
            /\ result[p].status = "returned"
            /\ HeaderCommitted(p)
            /\ Stored(p).tax_amount = Val(call[p].data.tax_amount)
            /\ Stored(p).total_amount =
                   Stored(p).subtotal + Val(call[p].data.tax_amount)
                     + Stored(p).shipping_amount - Stored(p).discount_amount

\* Request p runs updateStatus and its UPDATE has been applied.
StatusWritten(p) == call[p].name = "updateStatus" /\ caller[p] = "u275"

\* C7: once the UPDATE of an updateStatus(id, delivered) call has been
\* applied, the stored order has shipped_at and delivered_at set, and so has
\* the order the call returns; no stored order has delivered_at set without
\* shipped_at.
C7_DeliveredHasShippedAt ==
    /\ \A p \in Procs :
          (StatusWritten(p) /\ call[p].data.status = "delivered") =>
              /\ IsSet(orders[call[p].id].shipped_at)
              /\ IsSet(orders[call[p].id].delivered_at)
              /\ (pc[p] = "done" /\ result[p].status = "returned") =>
                    /\ IsSet(Val(result[p].order).shipped_at)
                    /\ IsSet(Val(result[p].order).delivered_at)
    /\ \A id \in DOMAIN orders :
          IsSet(orders[id].delivered_at) => IsSet(orders[id].shipped_at)

\* C7 witness: updateStatus(id, delivered) has returned for an order that was
\* never shipped, while another status update of the same order is running.
C7_Witness ==
    \E p \in Procs, q \in Procs :
        /\ p # q
        /\ pc[p] = "done"
        /\ StatusWritten(p)
        /\ call[p].data.status = "delivered"
        /\ result[p].status = "returned"
        /\ orders[call[p].id].shipped_at = orders[call[p].id].delivered_at
        /\ call[q].name = "updateStatus"
        /\ call[q].id = call[p].id
        /\ pc[q] \notin {"idle", "done"}

\* C8: the UPDATE of updatePaymentStatus(id, new_payment_status, reference)
\* sets payment_status to the new value and payment_reference to the supplied
\* reference, and leaves status, shipped_at and delivered_at unchanged.
C8_PaymentUpdateEffect ==
    [][\A p \in Procs :
          updatePayment(p) =>
              LET id == call[p].id
                  data == call[p].data
              IN  /\ orders'[id].payment_status = data.payment_status
                  /\ IsSet(data.payment_reference) =>
                        orders'[id].payment_reference = data.payment_reference
                  /\ orders'[id].status = orders[id].status
                  /\ orders'[id].shipped_at = orders[id].shipped_at
                  /\ orders'[id].delivered_at = orders[id].delivered_at]_vars

\* C9: the UPDATE of updateStatus stores exactly the supplied notes when
\* notes are supplied, and leaves the stored notes unchanged when they are
\* not.
C9_NotesReplaced ==
    [][\A p \in Procs :
          updateOrder(p) =>
              LET id == call[p].id
                  data == call[p].data
              IN  IF IsSet(data.notes)
                  THEN orders'[id].notes = Val(data.notes)
                  ELSE orders'[id].notes = orders[id].notes]_vars

\* Request p runs create with a payload that passes validation and names
\* existing products only.
ValidCreate(p) ==
    /\ call[p].name = "create"
    /\ ~validateCreate(call[p].data).error
    /\ ~HasMissingProduct(call[p].data)

\* C11: a create call with a valid payload is never turned down because of
\* another order: it does not end with the duplicate-key error, whether or
\* not an identical payload was stored before and whatever the clock reads;
\* stored orders have distinct ids and distinct order numbers.
C11_CreateNotIdempotent ==
    /\ \A p \in Procs :
          (CreateDone(p) /\ ValidCreate(p)) => result[p].error # "ER_DUP_ENTRY"
    /\ \A i, j \in DOMAIN orders :
          i # j => /\ orders[i].id # orders[j].id
                   /\ orders[i].order_number # orders[j].order_number

\* C19: a create call that a persistence fault sent to its catch block ends
\* by throwing that fault.
C19_FaultPropagatedUnchanged ==
    \A p \in Procs :
        (CreateDone(p) /\ err[p] = Some("ER_FAULT")) =>
            /\ result[p].status = "thrown"
            /\ result[p].error = "ER_FAULT"

\* The connections request p holds: the one of its create / update call
\* (acquired at line 17, 244 or 295) and the one of the findById it runs.
HeldOuter(p) ==
    \/ pc[p] \in {"c19", "c35", "c57", "c69", "c81", "c84", "a186", "a193",
                  "u270", "p312"}
    \/ pc[p] \in {"f95", "f98", "f110"} /\ caller[p] \in {"c82", "u275", "p317"}
HeldInner(p) == pc[p] \in {"f98", "f110"}
Held(p) == (IF HeldOuter(p) THEN 1 ELSE 0) + (IF HeldInner(p) THEN 1 ELSE 0)

RECURSIVE HeldBy(_)
HeldBy(S) ==
    IF S = {} THEN 0
    ELSE LET p == CHOOSE q \in S : TRUE IN Held(p) + HeldBy(S \ {p})

AllCompleted == \A p \in Procs : pc[p] \in {"idle", "done"}

\* C12: the connections out of the pool are exactly the ones the running
\* calls hold (none is lost, none is released twice), and once all calls
\* have completed no connection is checked out.
C12_ConnectionsReleased ==
    /\ free + HeldBy(Procs) = PoolSize
    /\ free \in 0..PoolSize
    /\ AllCompleted => free = PoolSize

\* C12 witness: all calls have completed, one of them a create whose
\* rollback failed, and the pool is full again.
C12_Witness ==
    /\ AllCompleted
    /\ free = PoolSize
    /\ \E p \in Procs : CreateDone(p) /\ result[p].error = "ER_ROLLBACK"

\* The payload of call c fails the validation gate of its operation.
Invalid(c) ==
    CASE c.name = "create" -> validateCreate(c.data).error
      [] c.name = "updateStatus" -> ~(c.data.status \in STATUS)
      [] c.name = "updatePaymentStatus" ->
             ~(c.data.payment_status \in PAYMENT_STATUS)
      [] OTHER -> FALSE

\* C13: a call whose payload fails validation ends in the step that starts
\* it, with a validation error, the tables and the pool untouched; it is
\* never found at an await.
C13_ValidationBeforePersistence ==
    /\ [](\A p \in Procs :
             Invalid(call[p]) =>
                 /\ pc[p] = "done"
                 /\ result[p] = Thrown("Validation error")
                 /\ ~IsSet(orderId[p]))
    /\ [][\A p \in Procs :
             (pc[p] = "idle" /\ pc'[p] # "idle" /\ Invalid(call'[p])) =>
                 /\ pc'[p] = "done"
                 /\ result'[p] = Thrown("Validation error")
                 /\ UNCHANGED <<tables, free, txn>>]_vars

\* C13 witness: an updateStatus call with status "bogus" was rejected while
\* the order it names is stored.
C13_Witness ==
    \E p \in Procs :
        /\ call[p].name = "updateStatus"
        /\ Invalid(call[p])
        /\ call[p].id \in DOMAIN orders
        /\ result[p] = Thrown("Validation error")

\* Request p runs updateStatus or updatePaymentStatus.
UpdateCall(p) == call[p].name \in {"updateStatus", "updatePaymentStatus"}

\* C14: an update call on an id without a stored order never gets past its
\* lookup to the UPDATE, and ends by throwing 'Order not found' (unless the
\* validation gate or a fault of the lookup ended it before).
C14_OrderNotFound ==
    \A p \in Procs :
        (UpdateCall(p) /\ call[p].id \notin DOMAIN orders) =>
            /\ pc[p] \in {"f95", "f98", "done"}
            /\ caller[p] \in {"none", "u239", "p290"}
            /\ pc[p] = "done" =>
                  /\ result[p].status = "thrown"
                  /\ \/ result[p].error = "Order not found"
                     \/ result[p].error = "ER_FAULT"
                     \/ result[p].error = "Validation error" /\ Invalid(call[p])

\* C14 witness: updatePaymentStatus threw 'Order not found' while another
\* order is stored, which the call left as it was created.
C14_Witness ==
    \E p \in Procs :
        /\ call[p].name = "updatePaymentStatus"
        /\ pc[p] = "done"
        /\ result[p].error = "Order not found"
        /\ call[p].id \notin DOMAIN orders
        /\ \E id \in DOMAIN orders : orders[id].payment_status = "pending"

\* The await an update call of request p is suspended at can go on.
UpdateCanStep(p) ==
    \/ ENABLED getConnection(p)
    \/ ENABLED selectOrder(p)
    \/ ENABLED selectItems(p)
    \/ ENABLED updateOrder(p)
    \/ ENABLED updatePayment(p)

UpdateWritten(p) == UpdateCall(p) /\ caller[p] \in {"u275", "p317"}

\* C16: an updateStatus or updatePaymentStatus call that ends by throwing
\* has not applied its UPDATE.
C16_ErrorMeansNoWrite ==
    \A p \in Procs :
        (UpdateCall(p) /\ pc[p] = "done" /\ result[p].status = "thrown") =>
            ~UpdateWritten(p)

\* C17: an updateStatus call on a stored order with any of the seven status
\* values, whatever the stored status is, returns the order with
\* status = new_status, and that is the stored status.
C17_AnyTransitionAccepted ==
    \A p \in Procs :
        (call[p].name = "updateStatus" /\ pc[p] = "done"
           /\ call[p].data.status \in STATUS /\ call[p].id \in DOMAIN orders) =>
            /\ result[p].status = "returned"
            /\ IsSet(result[p].order)
            /\ Val(result[p].order).status = call[p].data.status
            /\ orders[call[p].id].status = call[p].data.status

\* C17 witness: updateStatus(id, pending) has returned for an order that
\* was delivered.
C17_Witness ==
    \E p \in Procs :
        /\ call[p].name = "updateStatus" /\ pc[p] = "done"
        /\ Val(order[p]).status = "delivered"
        /\ call[p].data.status = "pending"
        /\ result[p].status = "returned"
        /\ orders[call[p].id].status = "pending"
        /\ IsSet(orders[call[p].id].delivered_at)

\* C18: a stored order whose status is cancelled or refunded keeps that
\* status in every step.
C18_CancelledRefundedAbsorbing ==
    [][\A id \in DOMAIN orders :
          orders[id].status \in {"cancelled", "refunded"} =>
              orders'[id].status = orders[id].status]_vars

\* C20: every call that has started completes.
C20_CallsComplete ==
    \A p \in Procs : (pc[p] # "idle") ~> (pc[p] = "done")

\* The fields of a stored order that create writes and no update names.
CreatedFields(r) ==
    <<r.id, r.user_id, r.order_number, r.subtotal, r.tax_amount,
      r.shipping_amount, r.discount_amount, r.total_amount>>

\* C21: no step changes the order number, the user, a monetary field or the
\* item rows of a stored order.
C21_CreatedFieldsImmutable ==
    [][\A id \in DOMAIN orders :
          /\ id \in DOMAIN orders'
          /\ CreatedFields(orders'[id]) = CreatedFields(orders[id])
          /\ order_items'[id] = order_items[id]]_vars

\* C21 witness: an order that a status update and a payment update have
\* written still has the amounts and the item create stored.
C21_Witness ==
    \E id \in DOMAIN orders :
        /\ orders[id].status = "delivered"
        /\ orders[id].payment_status = "paid"
        /\ orders[id].payment_reference = Some("TXN123")
        /\ orders[id].subtotal = 2000
        /\ orders[id].total_amount = 2150
        /\ Len(order_items[id]) = 1
        /\ order_items[id][1].total_price = 2000

\* C25: the UPDATE of updateStatus(id, delivered) applied to an order that
\* is pending and was never shipped sets shipped_at and delivered_at, both
\* to the time of the statement.
C25_DirectDeliverySameInstant ==
    [][\A p \in Procs :
          (updateOrder(p) /\ call[p].data.status = "delivered"
             /\ orders[call[p].id].status = "pending"
             /\ ~IsSet(orders[call[p].id].shipped_at)) =>
              /\ orders'[call[p].id].status = "delivered"
              /\ orders'[call[p].id].delivered_at = Some(clock)
              /\ orders'[call[p].id].shipped_at = orders'[call[p].id].delivered_at]_vars

\* C25 witness: a pending order was delivered directly at time 2 and the
\* call has returned it.
C25_Witness ==
    \E p \in Procs :
        /\ call[p].name = "updateStatus" /\ pc[p] = "done"
        /\ call[p].data.status = "delivered"
        /\ result[p].status = "returned"
        /\ IsSet(result[p].order)
        /\ Val(order[p]).status = "pending"
        /\ Val(result[p].order).shipped_at = Some(2)
        /\ Val(result[p].order).delivered_at = Some(2)

\* C26: the UPDATE of updateStatus(id, delivered) leaves a shipped_at that
\* is set in the stored row as it is.
C26_BackfillOnlyIfUnset ==
    [][\A p \in Procs :
          (updateOrder(p) /\ call[p].data.status = "delivered"
             /\ IsSet(orders[call[p].id].shipped_at)) =>
              orders'[call[p].id].shipped_at = orders[call[p].id].shipped_at]_vars

\* C27: the UPDATE of updateStatus leaves shipped_at and delivered_at as they
\* are for pending, confirmed, processing, cancelled and refunded, and for
\* shipped sets shipped_at to the time of the statement and leaves
\* delivered_at as it is.
C27_TimestampsOnlyForShippedDelivered ==
    [][\A p \in Procs :
          updateOrder(p) =>
              LET id == call[p].id
                  s == call[p].data.status
              IN  /\ s \notin {"shipped", "delivered"} =>
                        /\ orders'[id].shipped_at = orders[id].shipped_at
                        /\ orders'[id].delivered_at = orders[id].delivered_at
                  /\ s = "shipped" =>
                        /\ orders'[id].shipped_at = Some(clock)
                        /\ orders'[id].delivered_at = orders[id].delivered_at]_vars

\* C27 witness: an order delivered at time 1 was shipped at time 2: its
\* shipped_at is 2 and its delivered_at still 1.
C27_Witness ==
    \E p \in Procs :
        /\ call[p].name = "updateStatus" /\ pc[p] = "done"
        /\ call[p].data.status = "shipped"
        /\ Val(order[p]).status = "delivered"
        /\ orders[call[p].id].shipped_at = Some(2)
        /\ orders[call[p].id].delivered_at = Some(1)

\* C28: a stored order with shipped_at and delivered_at both set has
\* shipped_at <= delivered_at.
C28_ShippedBeforeDelivered ==
    \A id \in DOMAIN orders :
        (IsSet(orders[id].shipped_at) /\ IsSet(orders[id].delivered_at)) =>
            Val(orders[id].shipped_at) <= Val(orders[id].delivered_at)

\* C29: an update call that returns, returns the order with the status (or
\* payment status) it has written.
C29_ReturnsOwnWrite ==
    \A p \in Procs :
        (UpdateCall(p) /\ pc[p] = "done" /\ result[p].status = "returned") =>
            /\ IsSet(result[p].order)
            /\ call[p].name = "updateStatus" =>
                  Val(result[p].order).status = call[p].data.status
            /\ call[p].name = "updatePaymentStatus" =>
                  Val(result[p].order).payment_status = call[p].data.payment_status

\* The order ids request p has read from the database: the header row of
\* its findById, the order it returned, the headers findAll returned.
Observed(p) ==
    (IF IsSet(row[p]) THEN {Val(row[p]).id} ELSE {}) \cup
    (IF result[p].status = "returned" /\ IsSet(result[p].order)
     THEN IF call[p].name = "findAll"
          THEN {o.id : o \in Val(result[p].order).data}
          ELSE {Val(result[p].order).id}
     ELSE {})

\* The order ids of headers written in a transaction that is still open.
Uncommitted == {Val(txn[q].header).id : q \in {r \in Procs : IsSet(txn[r].header)}}

\* C23: the writes of a create call become visible all at once: a header
\* or item written in an open transaction is in no table a reader reads and
\* is observed by no reader; every committed header has all the items of
\* its request; findById returns a header together with all of them.
C23_VisibleAllAtOnce ==
    /\ Uncommitted \cap (DOMAIN orders \cup DOMAIN order_items) = {}
    /\ DOMAIN orders = DOMAIN order_items
    /\ \A id \in DOMAIN orders : Len(order_items[id]) = 2
    /\ \A p \in Procs :
          /\ Observed(p) \subseteq DOMAIN orders \ Uncommitted
          /\ (pc[p] = "done" /\ call[p].name \in {"findById", "create"}
                /\ result[p].status = "returned" /\ IsSet(result[p].order)) =>
                  Val(result[p].order).items = order_items[Val(result[p].order).id]

\* C23 witness: a findById of order 2 has returned nothing while another
\* request holds the header and the first item of order 2 in its open
\* transaction, next to the committed order 1.
C23_Witness ==
    \E p, q \in Procs :
        /\ pc[p] = "done" /\ call[p].name = "findById" /\ call[p].id = 2
        /\ result[p] = Returned(None)
        /\ 2 \in Uncommitted /\ Len(txn[q].items) = 1
        /\ 1 \in DOMAIN orders

\* C24: an order item is written with the name and SKU of the product row
\* create has read and the price of the request, and a change of a product
\* record changes no order item, stored or about to be committed.
C24_ItemsAreSnapshots ==
    [][/\ \A p \in Procs :
             insertItem(p) =>
                 LET item == call[p].data.items[idx[p]]
                     new == txn'[p].items[Len(txn'[p].items)]
                 IN  /\ new.product_name = Val(product[p]).name
                     /\ new.product_sku = Val(product[p]).sku
                     /\ new.unit_price = item.price
       /\ products' # products => (order_items' = order_items /\ txn' = txn)]_vars

\* C24 witness: product 1 was renamed and repriced after an order of it was
\* stored; the order item keeps the old name and the price of the request.
C24_Witness ==
    \E id \in DOMAIN order_items : \E i \in DOMAIN order_items[id] :
        /\ order_items[id][i].product_id = 1
        /\ order_items[id][i].product_name = "Nike Air Max 90"
        /\ order_items[id][i].unit_price = 300
        /\ products[1].name = "Nike Air Max 95"
        /\ products[1].price = 13000

\* Request p of a customer has been answered.
CustomerAnswered(p) ==
    response[p].status # 0 /\ IsSet(req[p].user) /\ IsCustomer(req[p])

\* C22: a customer is confined to their own orders.  GET /:id of an order
\* of somebody else is answered 403 without data, and order data it answers
\* is the requester's; GET / lists orders of the requester only; the order
\* POST / has stored carries the requester's id; the updates are answered
\* 403 and no repository call is made.
C22_CustomerConfined ==
    \A p \in Procs :
        CustomerAnswered(p) =>
            LET u == Val(req[p].user) IN
            /\ req[p].route = "GET /:id" =>
                  /\ (IsSet(result[p].order) /\ Val(result[p].order).user_id # u.id) =>
                        response[p] = Answer(403, None)
                  /\ IsSet(response[p].data) => Val(response[p].data).user_id = u.id
            /\ req[p].route = "GET /" =>
                  (IsSet(response[p].data) =>
                      \A o \in Val(response[p].data).data : o.user_id = u.id)
            /\ req[p].route = "POST /" =>
                  (response[p].status = 201 =>
                      /\ orders[Val(orderId[p])].user_id = u.id
                      /\ Val(response[p].data).user_id = u.id)
            /\ req[p].route \in {"PUT /:id/status", "PUT /:id/payment"} =>
                  /\ response[p] = Answer(403, None)
                  /\ call[p] = NoCall

\* C22 witness: customer 1 asked for order 1, which belongs to customer 2,
\* and was answered 403 without data.
C22_Witness ==
    \E p \in Procs :
        /\ CustomerAnswered(p) /\ Val(req[p].user).id = 1
        /\ req[p].route = "GET /:id" /\ req[p].id = 1
        /\ IsSet(result[p].order) /\ Val(result[p].order).user_id = 2
        /\ response[p] = Answer(403, None)

\* The position in the log s of the first counted attempt of the window the
\* n-th entry belongs to: an entry later than windowMs after the first
\* attempt of the window before it starts a window of its own.
RECURSIVE AnchorIdx(_, _)
AnchorIdx(s, n) ==
    IF n = 1 THEN 1
    ELSE LET a == AnchorIdx(s, n - 1) IN
         IF s[n] - s[a] > windowMs THEN n ELSE a

\* The requests of client k passed on in its latest window.
InWindow(k) ==
    IF through[k] = <<>> THEN 0
    ELSE Len(through[k]) - AnchorIdx(through[k], Len(through[k])) + 1

\* Client k has a window that the reading `now` still lies in.
WindowOpen(k, now) ==
    /\ through[k] # <<>>
    /\ ~(now - through[k][AnchorIdx(through[k], Len(through[k]))] > windowMs)

\* C30: of each client at most maxAttempts requests are passed on within
\* windowMs of its first counted attempt; a further request in the window
\* is answered 429; a request later than windowMs after that first attempt
\* is passed on again, with a fresh record; a request of one client changes
\* neither the log nor the live record of another.
C30_RateLimit ==
    /\ [](\A k \in Keys : InWindow(k) <= maxAttempts)
    /\ [][\A k \in Keys :
             authRateLimit(k) =>
                 /\ IF WindowOpen(k, clock) /\ InWindow(k) >= maxAttempts
                    THEN /\ verdict'[k] = "429"
                         /\ through'[k] = through[k]
                    ELSE /\ verdict'[k] = "next"
                         /\ through'[k] = Append(through[k], clock)
                         /\ ~WindowOpen(k, clock) =>
                               attempts'[k] = [count |-> 1, firstAttempt |-> clock]
                 /\ \A j \in Keys \ {k} :
                       /\ verdict'[j] = verdict[j]
                       /\ through'[j] = through[j]
                       /\ WindowOpen(j, clock) =>
                             (j \in DOMAIN attempts' /\ attempts'[j] = attempts[j])]_vars

\* C30 witness: client 1 was passed on maxAttempts times in its first
\* window, answered 429 and, after the window, passed on again, while
\* client 2 is answered 429 in its own window.
C30_Witness ==
    /\ Len(through[1]) = maxAttempts + 1
    /\ InWindow(1) = 1
    /\ verdict[1] = "next"
    /\ verdict[2] = "429"
    /\ InWindow(2) = maxAttempts

====
